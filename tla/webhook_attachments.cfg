CONSTANTS
    Request = {h1, h2, h3}
    Message = {m1}
    Attachment = {a1, a2}
    MaxFaults = 1
SPECIFICATION Spec
INVARIANTS ExtractionSeesAttachments
CHECK_DEADLOCK FALSE
