SPECIFICATION SysSpec
CONSTANTS
    MaxCalls = 1
    MaxInits = 1
    QCap = 1
    Levels <- OneLevel
    Callers = {a1}
    Choices = {0, 1, 4}
INVARIANTS
    SysTypeOK
    DeafOnlyByRace
PROPERTIES
    ClientRefined
