SPECIFICATION ChannelSpec
CONSTANTS
    c1 = c1  c2 = c2  c3 = c3
    k1 = k1  k2 = k2
    r1 = r1  r2 = r2
    Clients = {c1, c2}
    Waits = {c2}
    Keys = {k1, k2}
    RouteIds = {r1}
    Key <- SameKey
    Routes <- SharedRoutes
    NumTuners = 1
    ShutsDown = TRUE
    NoOne = NoOne
    SectionQueueSize = 1
    MaxVersions = 2
    MaxMissed = 1
    MaxOtherSections = 1
    MaxUpdateFailures = 1
    Grace = 1
    Stale = 4
    Watch = 2
    Missing = 3
    Period = 2
    Callbacks = {1, 2}
PROPERTIES
    StreamsSettle
    PFArrives
    ProgramEnds
CHECK_DEADLOCK FALSE
