\* A Get whose buffer lookup falls between ClearFlushBuffer and AddFile.
CONSTANTS
    a = a
    b = b
    r1 = r1
    Tomb = Tomb
    Absent = Absent
    NotFound = NotFound
    Keys <- MCKeys
    Vals <- MCVals
    Readers <- MCReaders
    InitFiles <- NoFiles
    BufferSize = 1
    Level0Limit = 1
    MaxWrites = 2
    MaxRestarts = 0
SPECIFICATION Spec
INVARIANT GetLinearizable
CHECK_DEADLOCK FALSE
