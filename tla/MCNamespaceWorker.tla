--------------------------- MODULE MCNamespaceWorker ---------------------------
(***************************************************************************)
(* Instances of NamespaceWorker for TLC.                                   *)
(*   Volume: a volume and the claim bound to it exist when the worker      *)
(*           starts; the claim is deleted and then the volume.             *)
(*   Stale:  the same start; the volume is updated.                        *)
(*   Bind:   an unbound claim (which no filter lets pass) is bound.        *)
(***************************************************************************)
EXTENDS NamespaceWorker

CONSTANTS pv, pvc, sts

\* The record of an item: event or copy, object, place in the pair cluster.
Item(o, v, a) == [obj |-> o, ver |-> v, act |-> a, copy |-> FALSE]
ItemCopy(o, v, a) == [Item(o, v, a) EXCEPT !.copy = TRUE]

MCObjects == {pv, pvc, sts}
MCKindOf  == [o \in MCObjects |-> CASE o = pv -> "pv" [] o = pvc -> "pvc" [] o = sts -> "sts"]
MCVolumeOf == [o \in {pvc} |-> pv]
MCInNamespace == {pvc, sts}

\* Objects keep their uid; an object and its uid have one name here.  A copy of
\* a claim has its kind for a resource, which the pair cluster does not serve.
MCUids == MCObjects
MCSourceUid == [o \in MCObjects |-> o]
Bogus(o) == <<o, "kind">>
MCNames == MCObjects \cup {Bogus(o) : o \in MCObjects}
MCServed == MCObjects
PlaceOfItem(i) == IF i.copy /\ MCKindOf[i.obj] = "pvc" THEN Bogus(i.obj) ELSE i.obj

VolumeEvents == {Item(pv, 1, "create"), Item(pvc, 2, "create"),
                 Item(pvc, 3, "delete"), Item(pv, 4, "delete")}
VolumeItems == VolumeEvents \cup {ItemCopy(pv, 1, "create")}

StaleEvents == {Item(pv, 1, "create"), Item(pvc, 2, "create"), Item(pv, 3, "update")}
StaleItems == StaleEvents \cup {ItemCopy(pv, v, "create") : v \in {1, 3}}

Unbound == Item(pvc, 1, "create")
BindEvents == {Unbound, Item(pv, 2, "create"), Item(pvc, 3, "update")}
BindItems == BindEvents \cup {ItemCopy(pv, 2, "update")}
BindPass == BindItems \ {Unbound}

ObjOfVolume == [i \in VolumeItems |-> i.obj]
UidOfVolume == [i \in VolumeItems |-> i.obj]
NameOfVolume == [i \in VolumeItems |-> PlaceOfItem(i)]
VerOfVolume == [i \in VolumeItems |-> i.ver]
ActOfVolume == [i \in VolumeItems |-> i.act]

ObjOfStale == [i \in StaleItems |-> i.obj]
UidOfStale == [i \in StaleItems |-> i.obj]
NameOfStale == [i \in StaleItems |-> PlaceOfItem(i)]
VerOfStale == [i \in StaleItems |-> i.ver]
ActOfStale == [i \in StaleItems |-> i.act]

ObjOfBind == [i \in BindItems |-> i.obj]
UidOfBind == [i \in BindItems |-> i.obj]
NameOfBind == [i \in BindItems |-> PlaceOfItem(i)]
VerOfBind == [i \in BindItems |-> i.ver]
ActOfBind == [i \in BindItems |-> i.act]

\* Runs that are not about stopping leave out what follows a cancellation.
Running == ~ctxDone

\* Every instance is one that the theorems about volumes and deletions speak of.
ASSUME PlacesAreOwn /\ UidsAreUnique /\ UidsAreKept /\ DeletionsPass
================================================================================
