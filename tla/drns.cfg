SPECIFICATION FairSpec
CONSTANTS
    Roles = {prod}
    NoRole = NoRole
    Adapters = {watch}
    NoAdapter = NoAdapter
    ClusterNames = {c1, c2}
    NoName = NoName
    FilterConfigs = {f1}
    NoFilter = NoFilter
    MaxEdits = 3
    MaxReports = 1
    MaxRestarts = 1
INVARIANTS TypeOK ActiveHasWorker DeletedHasNoWorker 
 
CHECK_DEADLOCK FALSE
