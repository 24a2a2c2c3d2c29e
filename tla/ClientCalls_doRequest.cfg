SPECIFICATION Spec
CONSTANT
    MaxLog = 3
INVARIANTS
    DoRequestFailureIsMarked
CHECK_DEADLOCK FALSE
