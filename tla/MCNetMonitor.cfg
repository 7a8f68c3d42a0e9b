SPECIFICATION Spec
CONSTANT N = 2
INVARIANTS
    TypeOK
    StreamsFit
    CommandsSingle
    RepairExpected
    PathWhileAccepting
PROPERTIES
    StartCompletes
    RepairCompletes
    ShutdownCompletes
