CONSTANTS
    Events = 3
    PerThread = 2
    Small = 2
    Retries = 1
    Width = 4
    CepValues = {0, 2, 9}
    CepLength = 4
    CmeBlocks = {8, 9, 10}
    CmeEntries = {26, 27, 28}
    CmeCounts = {0, 1, 2}
    SampleValues = {0, 1, 3, 4, 7, 18}
    MaxSamples = 4
    kBucketWidthNs = 4
    kNumBuckets = 3
    kFineBuckets = 2
    kLogBuckets = 3
    SizeBits = 6
    RingSizes <- MCRingSizes
    MaxNodes = 5
SPECIFICATION MCSpec
INVARIANTS
    EveryEventDelivered
    ReportsTrue
    OneInFlight
    CepExact
    DecodersExact
    SegmentFits
    SingleCycle
    MeasurementsRanked

    
