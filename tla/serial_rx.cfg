SPECIFICATION FairSpec
CONSTANTS
    Size = 4
    Chunk = 3
    QueueSize = 2
    MaxOthers = 1
    MaxBytes = 13
INVARIANTS
    TypeOK
    NeverEmpty
    OneWakeup
    InOrder
PROPERTIES
    BytesFed
