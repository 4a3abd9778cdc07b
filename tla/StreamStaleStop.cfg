SPECIFICATION Spec
CONSTANTS
    c1 = c1  c2 = c2  c3 = c3
    k1 = k1  k2 = k2
    r1 = r1  r2 = r2
    Clients = {c1, c2, c3}
    Waits = {}
    Keys = {k1, k2}
    RouteIds = {r1}
    Key <- SameKey
    Routes <- SharedRoutes
    NumTuners = 1
    ShutsDown = FALSE
    NoOne = NoOne
CHECK_DEADLOCK FALSE
INVARIANT
    OneLiveSessionPerKey
