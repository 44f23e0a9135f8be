CONSTANTS
    Kinds = {1, 2}
    Capacity = 2
    BATCH_SIZE = 2
    MaxEvents = 2
    MaxRules = 1
    MaxStarts = 2
SPECIFICATION FairSpec
INVARIANT EventsAccounted
PROPERTY WorkerResponds
CHECK_DEADLOCK FALSE
