SPECIFICATION SvcSpec
CONSTANTS
    MaxCalls = 2
    MaxInits = 1
    QCap = 1
    Choices = {0, 1, 2, 4}
INVARIANTS
    SvcTypeOK
    FileFaithful
PROPERTIES
    ShutdownCompletes
    RecordsReachFile
CHECK_DEADLOCK FALSE
