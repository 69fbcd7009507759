\* Up to four inserts of four keys and two values into a fresh skip list,
\* with seeks and iteration in between.
CONSTANTS
    v1 = v1
    v2 = v2
    Nil = Nil
    Keys <- MCKeys
    Vals <- MCVals
    MaxInserts = 4
    KeySize <- MCKeySize
    ValueSize <- MCValueSize
SPECIFICATION Spec
INVARIANT TypeOK
INVARIANT LevelsSorted
INVARIANT RandomIsLehmer
INVARIANT AllocationsDisjoint
INVARIANT NodesAligned
PROPERTY OrderedMapRefinement
