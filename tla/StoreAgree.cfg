SPECIFICATION StoreSpec
CONSTANTS
    Orders = {o1}
    Callers = {api, pay}
    Updaters = {pay}
    Absent = absent
    MayFail = FALSE
    MaxCalls = 2
INVARIANTS AgreeAfterUpdate
CHECK_DEADLOCK FALSE
