CONSTANTS
    Objects = {o1, o2, o3, o4, o5, o6}
    Null = Null
    CountLimit = 3
    MaxSize = 1
SYMMETRY Symmetry
SPECIFICATION Spec
INVARIANTS
    TypeOK
    OneOwner
    StackServicesAlive
    CleanupDue
    LengthsFit
PROPERTIES
    ImplementsGattDeclaration
