SPECIFICATION Spec
CONSTANTS
    Capacity = 4
    Keys = {0, 1, 2}
INVARIANTS
    EraseReturns
