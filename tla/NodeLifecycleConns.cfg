CONSTANTS
    Node = {n1}
    Conn = {c1, c2}
    None = None
    Faults = {"protocol", "db", "timeout", "revoke", "delete", "restart"}
SPECIFICATION Spec
SYMMETRY Symmetry
INVARIANT ServedConnIsRegistered
CHECK_DEADLOCK FALSE
