CONSTANTS
    Entry = {1, 2, 3}
    Sweeper = {s1}
    NoOne = NoOne
    Poison = {1}
    BatchSize = 2
    Concurrency = 2
    MaxFaults = 1
SPECIFICATION FairSpec
INVARIANTS TypeOK NoNeedlessDuplicate
PROPERTIES LoserNeverWrites DeliverySpec PendingIsDispatched
CHECK_DEADLOCK FALSE
