SPECIFICATION Spec
CONSTANTS
    None = None
    Sessions = {s1}
    Seeds = {seedA}
    WatchAddresses = {addrW}
    FileBacked = FALSE
    MaxDraws = 3
INVARIANTS
    QuickStartSigns
CHECK_DEADLOCK FALSE
