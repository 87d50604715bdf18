\* One place in each lot, and one vehicle more: each kind is turned away.
CONSTANTS
    Owners = {o1, o2}
    Vehicles = {v1, v2, v3}
    PICKUP_CAPACITY = 1
    AUTOMOBILE_CAPACITY = 1
    QUEUE_CAPACITY = 2
    NULL = null
SPECIFICATION FairSpec
INVARIANTS IInv
PROPERTIES LotRefinement OwnersServed
