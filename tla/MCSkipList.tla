----------------------------- MODULE MCSkipList -----------------------------
EXTENDS SkipList, Functions

CONSTANTS v1, v2

MCKeys == {1, 2, 3, 4}
MCVals == {v1, v2}

\* Five-byte keys; a 3-byte value (a 10-byte entry) and a 1964-byte value
\* (a 1972-byte entry, above a quarter block): two large entries with
\* their nodes fill head_'s block to its last bytes, so the bump, the
\* dedicated-block and the fresh-block paths are all taken.
MCKeySize == [k \in MCKeys |-> 5]
MCValueSize == v1 :> 3 @@ v2 :> 1964

=============================================================================
