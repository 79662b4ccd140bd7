SPECIFICATION ShopSpec
CONSTANTS
    Requests = {r1, r2}
    Sessions = {s1}
    LoginTTL = 3
    SlideTTL = 2
    Window = 2
    Limit = 1
    PageTTL = 2
    InitialStock = 1
    MaxTime = 4
    MaxRequests = 3
    MaxFaults = 1
INVARIANTS ShopInv AdmittedHaveSession WindowQuota PagesAreRecent
PROPERTIES ExpiredStaysExpired
CHECK_DEADLOCK FALSE
