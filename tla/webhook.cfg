CONSTANTS
    Request = {h1, h2, h3}
    Message = {m1}
    Attachment = {a1, a2}
    MaxFaults = 1
    Run = {s1, s2}
    BatchSize = 1
SPECIFICATION RetentionSpec
INVARIANTS StartedOnce AckedIsStarted CreatorAccountsForAll
PROPERTIES RedactionStands ExpiredIsRedacted
CHECK_DEADLOCK FALSE
