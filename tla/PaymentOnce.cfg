SPECIFICATION PaymentSpec
CONSTANTS
    Members = {c1}
    Partitions = {p1}
    Orders = {o1}
    Malformed = bad
    Messages = {o1, bad}
    PartitionOf <- AllToOne
    NoMember = none
    MaxRetry = 3
    DlqMayFail = FALSE
    MaxLog = 1
    MaxFaults = 0
INVARIANTS OutcomeAnnouncedOnce
CHECK_DEADLOCK FALSE
