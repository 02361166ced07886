SPECIFICATION Spec
CONSTANTS
    Users = {u1, u2}
    MaxRxUrbs = 1
INVARIANT OperationsSynchronized
CHECK_DEADLOCK FALSE
