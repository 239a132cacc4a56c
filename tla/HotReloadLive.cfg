CONSTANTS
    Route = {r1}
    TcpSlot = {a1}
    HttpSlot = {}
    Node = {n1}
    Req = {q1, q2}
    Client = {p1}
    None = None
    Capacity = 2
    Faults = {"bind", "accept", "delete", "import"}
    StartDisabled = FALSE
SPECIFICATION FairSpec
PROPERTY CatchesUp
CHECK_DEADLOCK FALSE
