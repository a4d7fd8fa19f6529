SPECIFICATION FairSpec
CONSTANTS
    Table <- DistinctCommands
    Malformed <- KnownMalformed
    Capacity = 4
    MaxLines = 2
INVARIANTS
    TypeOK
    TimeoutOwned
    ReadyOnce
    NeverFull
    AnswersParse
PROPERTY
    ImplementsCommandLine
