SPECIFICATION FairSystemSpec
CONSTANTS
    Members = {c1}
    Clients = {k1}
    Partitions = {p1}
    Orders = {o1}
    Malformed = bad
    Messages = {o1, bad}
    PartitionOf <- AllToOne
    NoMember = none
    Absent = absent
    MaxRetry = 2
    DlqMayFail = TRUE
    MaxLog = 2
    MaxFaults = 1
    MaxRequests = 2
INVARIANTS StatusIsLastAnnounced UpdatesFindTheirRow
PROPERTIES PlacedIsDecided ReadersLearnOutcome
CHECK_DEADLOCK FALSE
