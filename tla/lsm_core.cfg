\* Writes, swaps, flushes with torn files at a crash, a trivial move that leaves level 0 exactly at its limit, an N-way merge whose outputs are opened, written and closed one by one, and a crash with reopen at any step.
CONSTANTS
    a = a
    b = b
    r1 = r1
    Tomb = Tomb
    Absent = Absent
    NotFound = NotFound
    Keys <- MCKeys
    Vals <- OneVal
    Readers = {}
    InitFiles <- Level0AtLimit
    BufferSize = 1
    Level0Limit = 1
    MaxWrites = 2
    MaxRestarts = 1
SPECIFICATION Spec
CONSTRAINT BeforeReopen
INVARIANT TypeOK
INVARIANT NoEmptySegment
INVARIANT LevelsDisjoint
PROPERTY KVRefinement
PROPERTY RestartRecoversCommitted
CHECK_DEADLOCK FALSE
