SPECIFICATION FairOutboxSpec
CONSTANTS
    Orders = {o1, o2, bad}
    Unroutable = {bad}
    Relays = {r1, r2}
    BatchSize = 2
    MaxFaults = 2
INVARIANTS OrderIffEvent ClaimsAreDisjoint SentIsPublished CopiesNeedFaults OutboxInv
PROPERTIES AnnouncesStoredOrders OutboxDrains
CHECK_DEADLOCK FALSE
