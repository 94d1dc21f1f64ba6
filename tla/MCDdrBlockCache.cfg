SPECIFICATION Spec
CONSTANTS
    Tags = {0, 1}
    Sets = {0, 1}
    Data = {0, 1}
INVARIANTS
    TypeOK
    CleanLinesCurrent
    DirtyLinesWrittenBack
PROPERTIES
    PortImplemented
    StallEnds
