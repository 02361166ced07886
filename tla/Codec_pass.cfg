SPECIFICATION Spec
CONSTANTS
    Low = 2
    High = 2
    RebaseAfter = 1
    Boot = 2
    MaxTime = 5
    Sizes = {6, 14}
    MaxRecords = 3
    Lens = {0, 3}
INVARIANTS TypeOK StampExact
