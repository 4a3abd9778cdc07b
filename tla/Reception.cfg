SPECIFICATION ReceptionSumSpec
CONSTANTS
    r1 = r1
    r2 = r2
    r3 = r3
    a1 = a1
    a2 = a2
    NumTuners = 3
    Types = {"GR", "BS", "CS"}
    Groups <- MCAllGroups
    Unusable = {}
    AgentTuners = {2}
    Requests = {r1, r2, r3, a1, a2}
    ReqType <- MCAllType
    ReqPriority <- MCAllPriority
    ReqWait <- MCAllWait
    Users = {"u1"}
    UserPriority <- MCUserPriority
    MaxRefs = 2
    NoDevice = NoDevice
    NumTables = 2
    NumSegments = 2
    SegmentSize = 2
    NumVersions = 4
    Layouts <- MCLayouts
    MaxChanges = 2
    Counters = 4
    Contents = {"x", "y"}
    MaxPackets = 6
    Watchers = {"w1", "w2"}
    QueueSize = 1
    PriorityQueueSize = 1
    EventBuffer = 1
    Burst = 1
    MaxSections = 3
    MaxReopenings = 1
INVARIANTS
    GrabberIsWoken
    ReservationOwned
    StatusMatchesDevice
    LiveAfterReleaseWasCut
    UsersTracked
    NoLostWakeup
    AgentReceiverExclusive
    ReportIsCurrent
    DropsAreLosses
    SectionsServed
PROPERTIES
    NoReplay
CHECK_DEADLOCK FALSE
