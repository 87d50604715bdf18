\* Two readers and two writers, or any other mix; one may be killed inside, so
\* the system may really stop.
CONSTANTS
    Procs = {p1, p2, p3, p4}
    MaxKilled = 1
SPECIFICATION FairSpec
INVARIANTS IInv Exclusion QuiescentReset FirstReaderNeverBlocks
PROPERTIES LockRefinement RegionProgress WriterProgress
CHECK_DEADLOCK FALSE
