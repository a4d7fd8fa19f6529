SPECIFICATION FairSpec
CONSTANTS
    MaxDevices = 1
    SetupCommands = 1
    RestoreCommands = 1
    MaxCommands = 2
    MaxEvents = 0
PROPERTY
    StopReturns
CHECK_DEADLOCK FALSE
