CONSTANTS
    Clients = {c1, c2, c3}
    Capacity = 1
    MaxLost = 0
    Junk = junk
    NULL = null
    Garbage = garbage
SPECIFICATION Spec
PROPERTY RearIsSize
CHECK_DEADLOCK FALSE
