SPECIFICATION FairSpec
CONSTANTS
    r1 = r1
    r2 = r2
    f1 = f1
    f2 = f2
    RxBufCount = 2
    BytesPerRead = 80
    Readers = {r1, r2}
    Op <- SameOps
    Counts <- SameCounts
    Files = {f1, f2}
    MaxRecords = 2
INVARIANTS ResetAlone
PROPERTIES TakesAsFifo SleeperWakes
