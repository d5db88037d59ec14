CONSTANTS
    Claim = {c1}
    Worker = {w1}
    Operator = {o1}
    Watchdog = {}
    Token = {k1}
    NoToken = NoToken
    DlqConfigured = TRUE
    MaxReceiveCount = 1
    Faults = {}
    MaxFaults = 0
SPECIFICATION RedriveSpec
PROPERTIES RedriveRestartsClaim
CHECK_DEADLOCK FALSE
