\* Homework5.  The program ends: the last state has no successor.
CONSTANTS
    NumWorkers = 2
    BufferSize = 2
    Tree <- MCTree
    UseBarrier = TRUE
SPECIFICATION FairSpec
INVARIANTS IInv DescriptorsOwned CleanupLast NothingLost
PROPERTIES BarrierHolds Termination
CHECK_DEADLOCK FALSE
