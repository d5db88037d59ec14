CONSTANTS
    Claim = {c1}
    Worker = {w1, w2}
    Operator = {o1}
    Watchdog = {d1}
    Token = {k1, k2}
    NoToken = NoToken
    DlqConfigured = TRUE
    MaxReceiveCount = 2
    Faults = {"crash", "visibility"}
    MaxFaults = 1
SPECIFICATION FairSpec
INVARIANTS OneExtractor
PROPERTIES NoDuplicateWins SupersededNeverWrites ClaimLands
CHECK_DEADLOCK FALSE
