SPECIFICATION FairSpecFromFirst
CONSTANTS
    prod = prod
    watch = watch
    s1 = s1
    Namespaces = {n1, n2}
    Relative = {n1, n2}
    Roles = {prod, bkup}
    NoRole = NoRole
    Adapters = {watch, poll}
    NoAdapter = NoAdapter
    Settings = {s1, s2}
    NoSettings = NoSettings
    MaxEdits = 1
    MaxNamespaceEdits = 1
    MaxFailures = 1
    MaxRestarts = 1
INVARIANTS TypeOK SettingsPushed NamespacesFollow
PROPERTIES RoleImmutable ActiveReachedNamespaces ClusterConverges
CHECK_DEADLOCK FALSE
