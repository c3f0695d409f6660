SPECIFICATION Spec
CONSTANTS
    None = None
    Seeds = {}
    WatchedAccounts = {acctW}
    Terms = {terms1, terms2}
    MaxKeys = 2
    MaxBuilt = 2
    MaxChanges = 2
SYMMETRY TermSymmetry
INVARIANTS
    TypeOK
    BuiltVerifiesIfKeysMatch
    AcceptedWasSigned
    ChangedFieldIsInvalidSignature
