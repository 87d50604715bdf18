CONSTANTS
    Clients = {c1, c2, c3, c4}
    Capacity = 2
    MaxLost = 1
    Junk = junk
    NULL = null
    Garbage = garbage
SPECIFICATION Spec
SYMMETRY ClientSymmetry
INVARIANTS IInv WithinCapacity PidListExact ExitNoticed QueueHasTrigger
CHECK_DEADLOCK FALSE
