\* Three StorageEngine threads taking the reader/writer lock in any order.
CONSTANTS
    t1 = t1
    t2 = t2
    t3 = t3
    Threads <- MCThreads
SPECIFICATION FairSpec
INVARIANT TypeOK
PROPERTY RWLockRefinement
PROPERTY NoLostWakeup
