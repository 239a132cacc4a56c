CONSTANTS
    TheNode = n1
    Node <- MCNode
    Conn = {c1}
    None = None
    Faults = {"db", "cancel", "restart", "revoke"}
    Edit = {e1, e2}
    Paths = {"bumpSnapshot", "bumpDelta"}
    EditNode <- MCEditNode
SPECIFICATION CFairSpec
INVARIANTS AgentHasItsVersion NoVersionFromTheFuture
PROPERTY PushedArrives
CHECK_DEADLOCK FALSE
