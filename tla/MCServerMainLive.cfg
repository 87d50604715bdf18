\* One place: the other clients wait, and the queue grows past one.
CONSTANTS
    Clients = {c1, c2, c3}
    Capacity = 1
    MaxLost = 1
    Junk = junk
    NULL = null
    Garbage = garbage
SPECIFICATION FairSpec
PROPERTIES Shutdown ExitsReaped
CHECK_DEADLOCK FALSE
