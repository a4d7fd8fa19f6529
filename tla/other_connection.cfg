SPECIFICATION Spec
CONSTANTS
    c1 = c1
    c2 = c2
    a1 = a1
    a2 = a2
    Connections = {c1, c2}
    Attributes = {a1, a2}
    Null = Null
    Kinds = {"negotiateAttMtu", "readPhy"}
    MaxProcedures = 2
SYMMETRY CallbackSymmetry
PROPERTIES
    OwnConnection
