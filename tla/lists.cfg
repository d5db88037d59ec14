CONSTANTS
    Claim = {1, 2, 3, 4, 5}
    View = {"export", "dashboard", "updated_desc", "failure_oldest_first", "receive_count_desc"}
    Receives = {1, 2}
    MaxWrites = 2
    PageSize = 2
    BatchSize = 3
    ChunkRows = 2
    Limit = {4, 7}
SPECIFICATION Spec
INVARIANTS UntouchedShownOnce PagesMeet PagesTurnBack ExportedInOrder ExportIsComplete
CHECK_DEADLOCK FALSE
