SPECIFICATION Spec
CONSTANTS
    Table <- ReadPhyOnly
    Malformed = {}
    Capacity = 4
    MaxLines = 2
INVARIANT
    AnswersParse
