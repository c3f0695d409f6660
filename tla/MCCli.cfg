SPECIFICATION CliSpec
CONSTANTS
    None = None
    Sessions = {p1}
    Seeds = {seedA}
    WatchAddresses = {addrW}
    FileBacked = TRUE
    MaxDraws = 3
PROPERTIES
    CommandsEnd
    DamageIsKept
