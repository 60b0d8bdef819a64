\* Two callers that race for the first connection.
SPECIFICATION Spec
CONSTANTS
    Callers = {p1, p2}
    Conns = {c1, c2}
    None = None
INVARIANT ManagedIsOpen
