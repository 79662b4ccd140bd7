SPECIFICATION FairCheckoutSpec
CONSTANTS
    u1 = u1
    u2 = u2
    a = a
    b = b
    c = c
    scarce = p1
    Users <- Users2
    Products = {p1, p2}
    Requests <- ThreeCalls
    UserOf <- CallsOf
    InitialStock <- OneAndTwo
    Nobody = none
    NoProduct = noproduct
    MaxAdded = 1
    MaxFaults = 1
INVARIANTS NoOversell StockMatchesOrders CheckoutInv CartOrderedOnceWithoutFaults EffectsFollowOrders
PROPERTIES LockIsRespected KeepsInventory EveryCheckoutEnds LockIsFreed
CHECK_DEADLOCK FALSE
