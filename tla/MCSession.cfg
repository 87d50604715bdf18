\* Two responses in the pipe; a file is read in up to three parts.  The session
\* ends, so there are states without a successor.
CONSTANTS
    PipeSize = 2
    BuffSize = 2
    MaxSize = 5
SPECIFICATION FairSpec
INVARIANTS IInv InStep Framed StandoffCauses
PROPERTIES Answered RegionLeft ChildFollows
CHECK_DEADLOCK FALSE
