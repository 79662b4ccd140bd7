SPECIFICATION FairConsumerSpec
CONSTANTS
    Members = {c1, c2}
    Partitions = {p1}
    Messages = {m}
    NoMember = none
    MaxRetry = 3
    DlqMayFail = TRUE
    MaxLog = 2
    MaxFaults = 3
INVARIANTS CommittedAreSettled ConsumerInv
PROPERTIES EveryRecordSettles
CHECK_DEADLOCK FALSE
