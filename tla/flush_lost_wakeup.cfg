\* The flush notify of StorageBuffer::Add racing the flush daemon's check.
CONSTANTS
    a = a
    b = b
    r1 = r1
    Tomb = Tomb
    Absent = Absent
    NotFound = NotFound
    Keys <- MCKeys
    Vals <- MCVals
    Readers = {}
    InitFiles <- NoFiles
    BufferSize = 1
    Level0Limit = 1
    MaxWrites = 3
    MaxRestarts = 0
SPECIFICATION FairSpec
PROPERTY FlushEventuallyRuns
CHECK_DEADLOCK FALSE
