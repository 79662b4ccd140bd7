SPECIFICATION PaymentSpec
CONSTANTS
    Members = {c1, c2}
    Partitions = {p1}
    Orders = {o1}
    Malformed = bad
    Messages = {o1, bad}
    PartitionOf <- AllToOne
    NoMember = none
    MaxRetry = 2
    DlqMayFail = TRUE
    MaxLog = 2
    MaxFaults = 1
INVARIANTS PaymentInv ProcessedIsAnnounced ConsumedOrdersAreProcessed
PROPERTIES ProcessedIsFinal ConsumerSpec
CHECK_DEADLOCK FALSE
