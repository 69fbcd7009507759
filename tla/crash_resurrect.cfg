\* A crash inside the unlink loop of a merge of a level-0 delete with a newer level-0 value.
CONSTANTS
    a = a
    b = b
    r1 = r1
    Tomb = Tomb
    Absent = Absent
    NotFound = NotFound
    Keys <- MCKeys
    Vals <- MCVals
    Readers = {}
    InitFiles <- Level0Backlog
    BufferSize = 1
    Level0Limit = 1
    MaxWrites = 2
    MaxRestarts = 1
SPECIFICATION Spec
CONSTRAINT BeforeReopen
PROPERTY RestartRecoversDurable
CHECK_DEADLOCK FALSE
