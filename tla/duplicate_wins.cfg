CONSTANTS
    Claim = {c1}
    Worker = {w1, w2}
    Operator = {o1}
    Watchdog = {}
    Token = {k1}
    NoToken = NoToken
    DlqConfigured = TRUE
    MaxReceiveCount = 2
    Faults = {"crash", "db", "sqs", "visibility", "resend"}
    MaxFaults = 2
SPECIFICATION Spec
PROPERTIES NoDuplicateWins
CHECK_DEADLOCK FALSE
