SPECIFICATION Spec
CONSTANTS
    deploy = deploy
    job = job
    pvc = pvc
    a = a
    b = b
    Kinds = {deploy, job, pvc}
    NoKind = NoKind
    Names = {a, b}
    Fields <- MCFields
    Indices <- MCIndices
    Values <- MCValues
    Parses <- MCParses
    Objects <- MCObjects
    Configs <- MCConfigs
    NoConfig = NoConfig
    MaxRegistrations = 3
INVARIANTS ListedArePassed PassedClaimIsBound UserRulesApply UidKept
CHECK_DEADLOCK FALSE
