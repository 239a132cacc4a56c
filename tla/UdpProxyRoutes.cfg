CONSTANTS
    Route = {r1, r2}
    Client = {k1, k2}
    TheIp = p1
    Ip <- MCIp
    IpOf <- MCIpOf
    MaxSessions = 1
    MaxId = 3
    MaxEpoch = 1
    None = None
    Events = {}
SPECIFICATION Spec
INVARIANTS MapsAgree CountExact SessionsBounded
SYMMETRY Sym
CHECK_DEADLOCK FALSE
