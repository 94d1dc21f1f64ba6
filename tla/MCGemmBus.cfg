SPECIFICATION Spec
CONSTANTS
    OUTSTANDING = 4
    MAX_INFLIGHT = 3
    RETRY_CYCLES = 3
    CNT_MOD = 5
    LATENCY = 2
    NBEATS = 6
    NWRITES = 4
    MaxLost = 2
INVARIANTS
    TypeOK
    BeatsInOrder
    NoStrayRead
    CreditExact
PROPERTIES
    JobEnds
