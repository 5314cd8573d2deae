SPECIFICATION Spec
CONSTANTS
    reqA = reqA
    reqB = reqB
    NoContext = NoContext
    Contexts <- MCContexts
    RouteOf <- MCRouteOf
    Calls <- MCCalls
    Tokens = {"t1", "t2"}
    MaxObservations = 2
    MaxCalls = 3
INVARIANTS
    AtMostOnce
    WireIdentity
    EvidenceHonest
CHECK_DEADLOCK FALSE
