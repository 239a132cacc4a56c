CONSTANTS
    Route = {r1}
    Client = {k1, k2}
    TheIp = p1
    Ip <- MCIp
    IpOf <- MCIpOf
    MaxSessions = 1
    MaxId = 2
    MaxEpoch = 2
    None = None
    Events = {"reply", "lose", "recv", "open"}
SPECIFICATION FairSpec
INVARIANT ReplyToOwner
PROPERTIES IdleIsReaped OrphanIsClosed
CHECK_DEADLOCK FALSE
