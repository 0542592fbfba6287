SPECIFICATION Spec
CONSTANTS
    Roles = {prod}
    NoRole = NoRole
    Adapters = {watch}
    NoAdapter = NoAdapter
    ClusterNames = {c1}
    NoName = NoName
    FilterConfigs = {f1}
    NoFilter = NoFilter
    MaxEdits = 0
    MaxReports = 2
    MaxRestarts = 0
INVARIANT ConditionsKept
CHECK_DEADLOCK FALSE
