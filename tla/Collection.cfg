SPECIFICATION CollectionSumSpec
CONSTANTS
    c1 = c1  c2 = c2  c3 = c3
    k1 = k1  k2 = k2
    r1 = r1  r2 = r2
    Clients = {c1, c2, c3}
    Waits = {}
    Keys = {k1, k2}
    RouteIds = {r1, r2}
    Key <- SharedKey
    Routes <- FallbackRoutes
    NumTuners = 2
    ShutsDown = FALSE
    NoOne = NoOne
    Services = {"a", "b"}
    Expected = {"a"}
    MaxSections = 2
    UpdateBuffer = 1
    PFBuffer = 1
    ProbeExtended = FALSE
    Members = {"a", "b"}
    MaxCandidates = 3
INVARIANTS
    RoutesAccounted
    ProgressKept
    AnswerIsKept
PROPERTIES
    CollectionOrdered
CHECK_DEADLOCK FALSE
