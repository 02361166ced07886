SPECIFICATION Spec
CONSTANTS
    Net = net
    Files = {f1, f2}
    Plug = plug
    Early = {net}
    HasSilent = TRUE
INVARIANTS TypeOK StageAccounting PendingAccounting OneSession ExclusiveBusOn
    ExclusiveIdentity LeaderListens
PROPERTY OperationsEnd
