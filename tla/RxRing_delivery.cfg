SPECIFICATION Spec
CONSTANTS
    r1 = r1
    r2 = r2
    f1 = f1
    f2 = f2
    RxBufCount = 2
    BytesPerRead = 80
    Readers = {r1, r2}
    Op <- MixedOps
    Counts <- MixedCounts
    Files = {f1}
    MaxRecords = 3
INVARIANTS TypeOK WriterSlotFree InOrder OneUndecodedAtMost NoLostWakeUp
PROPERTIES ImplementsFifo
