CONSTANTS
    Org = {g1, g2}
    Claim = {c1, c2}
    Status = {NEW, READY}
    Absent = Absent
    Script = {s1, s2}
    MaxEvents = 2
    Reader = {r1}
    AllOrgs = AllOrgs
    View = {g1, AllOrgs}
    NoValue = NoValue
SYMMETRY Symmetry
SPECIFICATION CacheSpec
INVARIANTS CacheIsRecent RunRepairs
PROPERTIES WritesKeepExact
CHECK_DEADLOCK FALSE
