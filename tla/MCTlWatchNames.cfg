SPECIFICATION Spec
CONSTANTS
    MAX_OUTSTANDING = 3
    STALL_MAX = 4
    PORT_DEPTH = 2
    NREQ = 6
INVARIANT
    NamesStalledRequest
