\* A delete merged away at level 0 while level 2 of the data folder holds the key.
CONSTANTS
    a = a
    b = b
    r1 = r1
    Tomb = Tomb
    Absent = Absent
    NotFound = NotFound
    Keys <- MCKeys
    Vals <- MCVals
    Readers = {}
    InitFiles <- Level2Files
    BufferSize = 1
    Level0Limit = 1
    MaxWrites = 4
    MaxRestarts = 0
SPECIFICATION Spec
PROPERTY KVRefinement
CHECK_DEADLOCK FALSE
