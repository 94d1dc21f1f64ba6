SPECIFICATION SilenceSpec
CONSTANTS
    OUTSTANDING = 2
    MAX_INFLIGHT = 2
    RETRY_CYCLES = 3
    CNT_MOD = 16
    LATENCY = 2
    NBEATS = 4
    NWRITES = 1
    MaxLost = 1
INVARIANT
    SilentHeadRetried
