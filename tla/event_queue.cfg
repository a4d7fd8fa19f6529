SPECIFICATION FairSpec
CONSTANTS
    Nodes = {n1, n2, n3}
    MaxDelay = 2
    TicksPerMs = 2
    IsrLatency = 1
INVARIANTS
    TypeOK
    Sorted
    NeverEarly
    TickerCovers
PROPERTIES
    PostNeverDelays
    OnlyFractionsLost
    ImplementsEventQueue
    ReadyRuns
    TimedBecomesReady
