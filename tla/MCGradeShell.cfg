SPECIFICATION Spec
CONSTANTS
    Students <- MCStudents
    InitialFiles <- MCInitialFiles
    Leftovers <- MCLeftovers
    MaxLines = 3
    MaxFailures = 1
    MaxPage = 2
    BUFFER = 5
    SORT_BUFFER = 9
    Width = 2
    FIRST = 2
    NoFile = NoFile
INVARIANTS EachLineOnce ShownRight
CHECK_DEADLOCK FALSE
