SPECIFICATION FairSpec
CONSTANTS
    Sizes <- MCSizes
    PipeSize = 3
    Multiply = Multiply
    Sum = Sum
    Junk = Junk
    NONE = NONE
INVARIANT IInv
PROPERTY Completes
CHECK_DEADLOCK FALSE
