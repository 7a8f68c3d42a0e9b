SPECIFICATION Spec
CONSTANTS
    MaxCalls = 1
    MaxInits = 2
    QCap = 1
    Levels <- TwoLevels
    Callers = {a1}
INVARIANTS
    TypeOK
    LockInv
    LabelInRange
PROPERTIES
    FilterRefined
    ExitIsFinal
    ExitStopsThreads
    CommandsConsumed
