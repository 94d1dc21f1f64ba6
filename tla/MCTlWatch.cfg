SPECIFICATION Spec
CONSTANTS
    MAX_OUTSTANDING = 3
    STALL_MAX = 4
    PORT_DEPTH = 3
    NREQ = 6
INVARIANTS
    OutstandingExact
    NoFalseHang
PROPERTIES
    HangShown
