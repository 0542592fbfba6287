SPECIFICATION Spec
CONSTANTS
    prod = prod
    watch = watch
    s1 = s1
    Namespaces = {n1, n2}
    Relative = {n1}
    Roles = {prod}
    NoRole = NoRole
    Adapters = {watch}
    NoAdapter = NoAdapter
    Settings = {s1}
    NoSettings = NoSettings
    MaxEdits = 0
    MaxNamespaceEdits = 1
    MaxFailures = 0
    MaxRestarts = 0
PROPERTY OnlyRelativeDeactivated
CHECK_DEADLOCK FALSE
