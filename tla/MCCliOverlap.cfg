SPECIFICATION CliSpec
CONSTANTS
    None = None
    Sessions = {p1, p2}
    Seeds = {}
    WatchAddresses = {}
    FileBacked = TRUE
    MaxDraws = 2
PROPERTIES
    CommandsEnd
    DamageIsKept
    CommandsAreShort
