SPECIFICATION Spec
CONSTANT NUM = 2
INVARIANT DiscardsKeys
CHECK_DEADLOCK FALSE
