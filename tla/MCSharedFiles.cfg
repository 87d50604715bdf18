SPECIFICATION TableSpec
CONSTANTS
    Children = {c1, c2}
    f1 = f1
    f2 = f2
    f3 = f3
    s = s
    Files <- MCFiles
    Initial <- MCInitial
    Bytes <- MCBytes
    Capacity = 3
    FarOut = 5
    NONE = NONE
SYMMETRY Symmetry
INVARIANTS TableIInv OneLockPerFile
CHECK_DEADLOCK FALSE
