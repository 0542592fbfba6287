SPECIFICATION FairGSpec
CONSTANTS
    u1 = u1
    u2 = u2
    n1 = n1
    NoCluster = NoCluster
    Items <- LifeItems
    Uids = {u1, u2}
    Names = {n1}
    UidOf <- UidOfLife
    NameOf <- NameOfLife
    VerOf <- VerOfLife
    ActOf <- ActOfLife
    Clusters = {c1}
    Served = {n1}
    Preexisting = {}
    Faults = {"lost", "getError"}
    Events <- LifeEvents
    Found <- FoundItem
    FirstRevision = 1
    LastRevision = 4
    MaxGenerations = 2
    MaxReconnects = 1
ACTION_CONSTRAINT QuietReconnects
INVARIANTS GTypeOK PresentAfterRelist WatchedIsMirrored
PROPERTIES NeverBack ArrivesAfterRestart
CHECK_DEADLOCK FALSE
