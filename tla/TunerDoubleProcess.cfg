SPECIFICATION Spec
CONSTANTS
    r1 = r1
    r2 = r2
    r3 = r3
    NumTuners = 1
    Types = {"GR"}
    Groups <- MCGroups
    Unusable = {}
    AgentTuners = {}
    Requests = {r1, r2, r3}
    ReqType <- MCReqType
    ReqPriority <- MCReqPriority
    ReqWait <- MCReqWait
    Users = {}
    UserPriority <- MCUserPriority
    MaxRefs = 2
    NoDevice = NoDevice
INVARIANT
    PhysicalTunerExclusive
CHECK_DEADLOCK FALSE
