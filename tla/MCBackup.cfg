SPECIFICATION BackupSpec
CONSTANTS
    None = None
    Sessions = {s1, s2}
    Seeds = {}
    WatchAddresses = {addrW}
    FileBacked = TRUE
    MaxDraws = 3
    MaxExports = 1
INVARIANTS
    ExportsRestorable
    RotationLineage
    SelectionWorks
PROPERTIES
    ImplementsSafekeeping
CHECK_DEADLOCK FALSE
