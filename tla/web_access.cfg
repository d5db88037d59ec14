CONSTANTS
    Limit = 2
    Window = 2
    MaxGuesses = 4
    MaxSignIns = 1
    Org = {g1, g2}
    Role = {"VIEWER", "OWNER"}
    Request = {r1, r2}
    Session = {s1}
    SessionTtl = 1
    PendingTtl = 1
    MaxTime = 3
    MaxChanges = 1
SPECIFICATION Spec
SYMMETRY Symmetry
INVARIANTS LimitHolds RetryAfterHelps EndedNotServed RolesAreHeld
CHECK_DEADLOCK FALSE
