\* Get, Set and Clear on a cache of two segments with three segment ids.
CONSTANTS
    f1 = f1
    f2 = f2
    f3 = f3
    k1 = k1
    k2 = k2
    head = head
    tail = tail
    Null = Null
    Ids <- MCIds
    KeyStrs <- MCKeyStrs
    Tables <- MCTables
    Capacity = 2
SPECIFICATION Spec
INVARIANT TypeOK
INVARIANT ListWellFormed
PROPERTY LRURefinement
