CONSTANTS
    Node = {n1}
    Conn = {c1, c2}
    None = None
    Faults = {"protocol", "db", "timeout", "revoke", "delete", "restore", "restart"}
SPECIFICATION FairSpec
INVARIANTS TypeOK NoDanglingEntry GaugeExact NoGhostOnline NoGhostEvent
PROPERTIES NoResurrection LostConnIsCleanedUp OneServerWins
CHECK_DEADLOCK FALSE
