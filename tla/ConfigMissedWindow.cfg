CONSTANTS
    TheNode = n1
    Node <- MCNode
    Conn = {c1}
    None = None
    Faults = {}
    Edit = {e1}
    Paths = {"bumpSnapshot"}
    EditNode <- MCEditNode
SPECIFICATION CSpec
INVARIANT SettledAgentIsCurrent
CHECK_DEADLOCK FALSE
