CONSTANTS
    Claim = {c1}
    Worker = {w1}
    Operator = {o1, o2}
    Watchdog = {}
    Token = {k1, k2, k3}
    NoToken = NoToken
    DlqConfigured = TRUE
    MaxReceiveCount = 2
    Faults = {"crash", "db", "sqs", "visibility"}
    MaxFaults = 1
SPECIFICATION Spec
SYMMETRY Symmetry
INVARIANTS TypeOK RowConsistent RetryStillAllowed EventChain SettledOnce JobsFenced ErrorHasDlqEvidence
PROPERTIES LifeSpec FatalIsFinal
CHECK_DEADLOCK FALSE
