SPECIFICATION Spec
CONSTANTS
    ns1 = ns1
    ns2 = ns2
    w1 = w1
    w2 = w2
    w3 = w3
    None = None
    Namespaces <- MCNamespaces
    Clusters = {c1, c2}
    Settings = {s1, s2}
    Workers <- MCWorkers
    NsOf <- MCNsOf
    MaxUpdates = 5
INVARIANTS TypeOK ListenersAreCurrent SuccessorListens
CHECK_DEADLOCK FALSE
