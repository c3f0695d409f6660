SPECIFICATION KeyTurnsSpec
CONSTANTS
    None = None
    Sessions = {p1, p2}
    Seeds = {}
    WatchAddresses = {addrW}
    FileBacked = TRUE
    MaxDraws = 3
PROPERTIES
    ImplementsSafekeeping
