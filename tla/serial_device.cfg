SPECIFICATION FairSpec
CONSTANTS
    MaxDevices = 2
    SetupCommands = 1
    RestoreCommands = 1
    MaxCommands = 2
    MaxEvents = 1
INVARIANTS
    TypeOK
    AnswersOwn
    EventsKept
PROPERTIES
    AllocationEnds
    StopReturnsIfLate
CHECK_DEADLOCK FALSE
