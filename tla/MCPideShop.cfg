CONSTANTS
    Chefs = {f1, f2}
    Deliverers = {d1}
    c1 = c1
    c2 = c2
    Clients = {c1, c2}
    CustomerCounts <- EqualAndUnequal
    OverlapCounts <- Singles
    MaxOrders = 2
    MaxTroubles = 1
    MAX_OVEN_SLOTS = 1
    MAX_OVEN_PEELS = 1
    MAX_OVEN_CAPACITY = 1
    MAX_DELIVERY_BAG_CAPACITY = 2
    SameHost = TRUE
    NULL = null
SPECIFICATION FairSpec
INVARIANTS IInv ArrayUnused
PROPERTIES ContractKept CustomerServed
CHECK_DEADLOCK FALSE
