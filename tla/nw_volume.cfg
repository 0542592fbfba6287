SPECIFICATION WSpec
CONSTANTS
    pv = pv
    pvc = pvc
    sts = sts
    NoCluster = NoCluster
    Items <- VolumeItems
    Events <- VolumeEvents
    PassFilter <- VolumeItems
    Objects <- MCObjects
    KindOf <- MCKindOf
    VolumeOf <- MCVolumeOf
    InNamespace <- MCInNamespace
    SourceUid <- MCSourceUid
    Uids <- MCUids
    Names <- MCNames
    Served <- MCServed
    ObjOf <- ObjOfVolume
    UidOf <- UidOfVolume
    NameOf <- NameOfVolume
    VerOf <- VerOfVolume
    ActOf <- ActOfVolume
    Copy <- ItemCopy
    Clusters = {c1}
    Preexisting = {}
    Faults = {"lost", "noAnswer"}
    SourceMayFail = TRUE
    FirstRevision = 2
    LastRevision = 4
CONSTRAINT Running
INVARIANTS WorkerTypeOK VolumeUnderClaim NoEventLost NoOrphans MirroredAtRest
PROPERTY NothingAfterDeletion
CHECK_DEADLOCK FALSE
