SPECIFICATION Spec
CONSTANTS
    Table <- DistinctCommands
    Malformed <- KnownMalformed
    Capacity = 4
    MaxLines = 2
INVARIANT
    DeletedOnce
