CONSTANTS
    scan1 = scan1
    scan2 = scan2
    gather1 = gather1
    gather2 = gather2
    gather3 = gather3
    after = after
    plain = plain
    topology = topology
    live = live
    storedEPG = storedEPG
    NoGroup = NoGroup
    Keys = {plain, scan1, gather1}
    DependsOn <- MCDepends
    ExclusiveKeys <- MCExclusive
    SharedKeys <- MCShared
    Priority <- MCPriority
    Group <- MCGroup
    RetryMax <- MCRetry
    Rerunnable = {}
    Resources = {topology}
    Groups = {live, storedEPG}
    GroupLimits <- MCLimits
    IndependentGroups = {storedEPG}
    MaxConcurrent = 2
    MaxHistory = 1
    MaxJobs = 3
SPECIFICATION Spec
INVARIANT ShutdownFinishesStandby
CHECK_DEADLOCK FALSE
