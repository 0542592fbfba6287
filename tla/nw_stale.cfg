SPECIFICATION WSpec
CONSTANTS
    pv = pv
    pvc = pvc
    sts = sts
    NoCluster = NoCluster
    Items <- StaleItems
    Events <- StaleEvents
    PassFilter <- StaleItems
    Objects <- MCObjects
    KindOf <- MCKindOf
    VolumeOf <- MCVolumeOf
    InNamespace <- MCInNamespace
    SourceUid <- MCSourceUid
    Uids <- MCUids
    Names <- MCNames
    Served <- MCServed
    ObjOf <- ObjOfStale
    UidOf <- UidOfStale
    NameOf <- NameOfStale
    VerOf <- VerOfStale
    ActOf <- ActOfStale
    Copy <- ItemCopy
    Clusters = {c1}
    Preexisting = {}
    Faults = {}
    SourceMayFail = FALSE
    FirstRevision = 2
    LastRevision = 3
PROPERTY SkippedIsOld
CHECK_DEADLOCK FALSE
