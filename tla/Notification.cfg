SPECIFICATION NotificationSpec
CONSTANTS
    Members = {c1, c2}
    Partitions = {p1}
    Events = {e}
    Anonymous = anonymous
    Malformed = bad
    Messages = {e, anonymous, bad}
    StrictMembers = {c2}
    PartitionOf <- AllToOne
    NoMember = none
    MaxRetry = 2
    DlqMayFail = TRUE
    MaxLog = 2
    MaxFaults = 2
INVARIANTS NotificationInv UntoldNeedsFailedSend NoticesAreExplained ConsumedEventsAreProcessed
PROPERTIES ConsumerSpec
CHECK_DEADLOCK FALSE
