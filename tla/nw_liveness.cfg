SPECIFICATION FairWSpec
CONSTANTS
    pv = pv
    pvc = pvc
    sts = sts
    NoCluster = NoCluster
    Items <- BindItems
    Events <- BindEvents
    PassFilter <- BindPass
    Objects <- MCObjects
    KindOf <- MCKindOf
    VolumeOf <- MCVolumeOf
    InNamespace <- MCInNamespace
    SourceUid <- MCSourceUid
    Uids <- MCUids
    Names <- MCNames
    Served <- MCServed
    ObjOf <- ObjOfBind
    UidOf <- UidOfBind
    NameOf <- NameOfBind
    VerOf <- VerOfBind
    ActOf <- ActOfBind
    Copy <- ItemCopy
    Clusters = {c1}
    Preexisting = {}
    Faults = {"lost", "panic"}
    SourceMayFail = TRUE
    FirstRevision = 2
    LastRevision = 3
PROPERTIES ClaimArrives WorkerStops
CHECK_DEADLOCK FALSE
