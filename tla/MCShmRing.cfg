CONSTANTS
    Capacity = 2
    Words = {1, 2}
    SpuriousFailure = FALSE
    kMaxReclaimAttempts = 2
    kMaxSeqlockAttempts = 2
    MaxRecords = 6
SPECIFICATION FairSpec
INVARIANT OnlyGaps
PROPERTIES FifoUntilReclaim CatchesUp
