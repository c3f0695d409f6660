SPECIFICATION Spec
CONSTANTS
    None = None
    Sessions = {s1, s2}
    Seeds = {seedA}
    WatchAddresses = {addrW}
    FileBacked = TRUE
    MaxDraws = 2
INVARIANTS
    KeyCustody
CHECK_DEADLOCK FALSE
