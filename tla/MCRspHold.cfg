SPECIFICATION Spec
CONSTANTS
    DEPTH = 3
    NREQ = 12
INVARIANTS
    TypeOK
    RoomForPromises
    AnswersInOrder
PROPERTIES
    AllServed
