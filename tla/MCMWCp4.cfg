\* Homework4: no barrier.
CONSTANTS
    NumWorkers = 2
    BufferSize = 2
    Tree <- MCTree
    UseBarrier = FALSE
SPECIFICATION Spec
INVARIANT WorkersFinished
CHECK_DEADLOCK FALSE
