SPECIFICATION SafetySpec
CONSTANTS
    MaxCalls = 1
    MaxInits = 1
    QCap = 1
    Levels <- TwoLevels
    Callers = {a1}
PROPERTIES
    CommandObeyed
