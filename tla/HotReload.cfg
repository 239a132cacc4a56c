CONSTANTS
    Route = {r1, r2}
    TcpSlot = {a1, a2}
    HttpSlot = {h1}
    Node = {n1, n2}
    Req = {q1, q2}
    Client = {p1}
    None = None
    Capacity = 1
    Faults = {"db", "cancel", "bind", "accept"}
    StartDisabled = TRUE
SPECIFICATION Spec
SYMMETRY Symmetry
INVARIANTS TypeOK ServedRowWasEnabled QuietHostsAreCurrent QuietListenersAreCurrent QuietWantedListen LoopIsOwned
CHECK_DEADLOCK FALSE
