SPECIFICATION FairStoreSpec
CONSTANTS
    Orders = {o1}
    Callers = {api, pay1, pay2}
    Updaters = {pay1, pay2}
    Absent = absent
    MayFail = TRUE
    MaxCalls = 2
INVARIANTS StoreInv
PROPERTIES StaleIsTransient
CHECK_DEADLOCK FALSE
