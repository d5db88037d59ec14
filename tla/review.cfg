CONSTANTS
    Claim = {c1}
    Operator = {o1, o2}
    Worker = {w1, w2}
    Field = {f1, f2}
    Value = {v1}
    Null = Null
    MaxAttempt = 2
    MaxRequests = 3
SPECIFICATION ReviewSpec
INVARIANTS LogExplainsStatus EditsStand
PROPERTIES ResultsAreTheOperators PriorValuesKept
CHECK_DEADLOCK FALSE
