CONSTANTS
    TheNode = n1
    Node <- MCNode
    Conn = {c1, c2}
    None = None
    Faults = {"delete"}
    Edit = {e1}
    Paths = {"bumpSnapshot"}
    EditNode <- MCEditNode
SPECIFICATION CSpec
PROPERTY ImplementsLifecycle
CHECK_DEADLOCK FALSE
