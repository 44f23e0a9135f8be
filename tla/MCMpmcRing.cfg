CONSTANTS
    Producers = {p1, p2}
    Consumers = {c1, c2}
    Capacity = 2
    MaxPushes = 4
SPECIFICATION FairSpec
INVARIANT CellsHandedOver
PROPERTY EveryPushPopped
