SPECIFICATION Spec
CONSTANTS
    MaxTxUrbs = 2
    MaxFrames = 4
INVARIANTS TypeOK ActiveAccounting ContextExclusive
PROPERTIES ImplementsEcho ContextsReturn PendingWakes
CHECK_DEADLOCK FALSE
