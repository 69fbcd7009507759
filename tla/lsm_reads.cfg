\* A reader's Get racing writes, swaps, flushes and compactions.
CONSTANTS
    a = a
    b = b
    r1 = r1
    Tomb = Tomb
    Absent = Absent
    NotFound = NotFound
    Keys <- MCKeys
    Vals <- MCVals
    Readers <- MCReaders
    InitFiles <- NoFiles
    BufferSize = 1
    Level0Limit = 1
    MaxWrites = 4
    MaxRestarts = 0
SPECIFICATION Spec
SYMMETRY ValSymmetry
INVARIANT GetLinearizableOutsideFlushWindow
PROPERTY NoSwapWhileDraining
CHECK_DEADLOCK FALSE
