SPECIFICATION CheckoutSpec
CONSTANTS
    u1 = u1
    u2 = u2
    a = a
    b = b
    c = c
    scarce = p1
    Users <- Users2
    Products = {p1, p2}
    Requests <- TwoCalls
    UserOf <- SameUser
    InitialStock <- TwoEach
    Nobody = none
    NoProduct = noproduct
    MaxAdded = 1
    MaxFaults = 1
INVARIANTS CartOrderedOnce
CHECK_DEADLOCK FALSE
