SPECIFICATION Spec
CONSTANTS
    Users = {u1, u2}
    MaxRxUrbs = 1
INVARIANTS TypeOK PendingAccounting DestroyWaits NewcomersRefused UnwoundDevices OneHolder
PROPERTIES ImplementsCustody SleepersReturn 
CHECK_DEADLOCK FALSE
