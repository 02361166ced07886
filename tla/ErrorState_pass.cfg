SPECIFICATION Spec
CONSTANT MaxTransfers = 2
INVARIANTS TypeOK OnItsWayBack ClosedForGood PostedOnce
PROPERTIES Recovers RestartFindsCarrierOff
