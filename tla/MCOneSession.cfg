SPECIFICATION SerialSpec
CONSTANTS
    None = None
    Sessions = {s1, s2}
    Seeds = {seedA}
    WatchAddresses = {addrW}
    FileBacked = TRUE
    MaxDraws = 3
INVARIANTS
    RotationLineage
    KeyCustody
    SelectionWorks
    AcknowledgedSurvives
PROPERTY
    ImplementsCustody
CHECK_DEADLOCK FALSE
