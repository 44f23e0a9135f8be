CONSTANTS
    Readers = {r1}
    Capacity = 4
    Words = {1, 2}
    MaxBatch = 2
    MaxRecords = 8
SPECIFICATION FairSpec
PROPERTIES ImplementsLog CatchesUp
