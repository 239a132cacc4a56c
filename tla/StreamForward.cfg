SPECIFICATION FairForward
CONSTANTS
    p1 = p1
    p2 = p2
    AnyValue = AnyValue
    Target = Target
    Client <- MCClient
    MaxLimit = 1
    Width <- MCWidth
    MaxChunks = 2
    Followed = {p1}
    Proto <- MCProto
    Sources <- MCSources
    GlobalRules <- MCGlobalRules
    RouteRules <- MCRouteRules
    Resolutions <- MCResolutions
    AllowTargets = {}
    DenyTargets <- MCDeny
INVARIANTS
    CounterExact
    BytesInOrder
PROPERTIES
    ImplementsAdmissionControl
    
