\* Three laps of a four-slot ring, records of two words.
CONSTANTS
    Capacity = 4
    Words = {1, 2}
    MaxRecords = 12
SPECIFICATION FairSpec
INVARIANTS
    NoSlotRace
PROPERTIES
    ImplementsFifo
    EveryRecordDelivered
