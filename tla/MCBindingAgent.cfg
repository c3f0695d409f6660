SPECIFICATION Spec
CONSTANTS
    None = None
    Seeds = {}
    WatchedAccounts = {acctW}
    Terms = {terms1}
    MaxKeys = 2
    MaxBuilt = 1
    MaxChanges = 0
INVARIANTS
    AcceptedNamesItsAgent
