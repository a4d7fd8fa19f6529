SPECIFICATION Spec
CONSTANTS
    c1 = c1
    c2 = c2
    a1 = a1
    a2 = a2
    Connections = {c1, c2}
    Attributes = {a1, a2}
    Null = Null
    Kinds = {"read", "write", "waitForDataWritten", "listenHVX", "negotiateAttMtu",
             "discoverServices", "discoverAll", "discoverDescriptors", "readPhy",
             "enablePrivacy", "startAdvertising", "stopAdvertising", "scan",
             "waitForConnection", "waitForDisconnection", "pairing", "generateWhitelist"}
    MaxProcedures = 3
SYMMETRY CallbackSymmetry
INVARIANTS
    TypeOK
    OnlyLiveRegistered
    DiscoveryConnected
PROPERTIES
    AnswersRequest
    EventsReported
