SPECIFICATION WriterTurnsSpec
CONSTANTS
    None = None
    Sessions = {p1, p2}
    Seeds = {}
    WatchAddresses = {addrW}
    FileBacked = TRUE
    MaxDraws = 3
INVARIANTS
    AcknowledgedSurvives
PROPERTIES
    ImplementsCustody
