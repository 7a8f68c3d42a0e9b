SPECIFICATION SafetySpec
CONSTANTS
    MaxCalls = 2
    MaxInits = 1
    QCap = 1
    Levels <- TwoLevels
    Callers = {a1, a2}
PROPERTIES
    RecordSentIntact
