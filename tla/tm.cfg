SPECIFICATION FairSpec
CONSTANTS
    u1 = u1
    n1 = n1
    NoCluster = NoCluster
    Items <- LifeItems
    Uids <- MCUids
    Names <- MCNames
    Served <- MCServed
    UidOf <- UidOfLife
    NameOf <- NameOfLife
    VerOf <- VerOfLife
    ActOf <- ActOfLife
    Clusters = {c1, c2}
    Preexisting = {}
    Faults = {"lost", "noAnswer", "getError", "panic"}
INVARIANTS TypeOK NoItemLost AcknowledgedIsHeld SuccessIsHeld MirroredWhenQuiescent
PROPERTIES ImplementsAckedReplica AcknowledgedNotOverwritten EventuallySettled DeletionSticks
CHECK_DEADLOCK FALSE
