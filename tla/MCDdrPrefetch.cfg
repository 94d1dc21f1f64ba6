SPECIFICATION Spec
CONSTANTS
    SIZE = 2
    NADDR = 3
    Data = {0, 1}
INVARIANTS
    TypeOK
    InFlightExact
    EntriesCurrent
PROPERTIES
    PortImplemented
    RequestAnswered
