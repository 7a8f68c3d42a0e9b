SPECIFICATION Spec
CONSTANT NUM = 2
INVARIANTS
    TypeOK
    StopsWriting
    EndsForReason
    KilledUnready
PROPERTY
    WaitEnds
CHECK_DEADLOCK FALSE
