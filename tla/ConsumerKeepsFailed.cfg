SPECIFICATION ConsumerSpec
CONSTANTS
    Members = {c1, c2}
    Partitions = {p1}
    Messages = {m}
    NoMember = none
    MaxRetry = 3
    DlqMayFail = TRUE
    MaxLog = 2
    MaxFaults = 1
INVARIANTS FailedRecordIsKept
CHECK_DEADLOCK FALSE
