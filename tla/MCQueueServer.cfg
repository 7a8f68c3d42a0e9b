SPECIFICATION Spec
CONSTANTS
    MaxMsgs = 2
    Cap = 2
INVARIANTS
    TypeOK
    PopSafe
    InOrder
PROPERTIES
    Relayed
    ShutdownProceeds
    JoinEnds
CHECK_DEADLOCK FALSE
