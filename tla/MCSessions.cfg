SPECIFICATION Spec
CONSTANTS
    None = None
    Sessions = {s1, s2}
    Seeds = {seedA}
    WatchAddresses = {addrW}
    FileBacked = TRUE
    MaxDraws = 2
SYMMETRY SessionSymmetry
INVARIANTS
    TypeOK
    RotationLineage
    SelectionsAreSound
    KeysMatchRecords
    RecordsAgree
    TokensNameTheirSigner
    SignaturesTellSigners
CHECK_DEADLOCK FALSE
