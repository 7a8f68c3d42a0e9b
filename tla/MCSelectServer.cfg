SPECIFICATION Spec
CONSTANTS
    Clients = {1, 2, 3}
    C_MAX = 2
    MaxMsgs <- TwoTalk
    MaxQueue = 2
INVARIANTS
    TypeOK
    PopSafe
    RelayFaithful
    QuitToAll
PROPERTIES
    ShutdownCompletes
    IdleStops
CHECK_DEADLOCK FALSE
