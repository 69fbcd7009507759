----------------------------- MODULE MCLRUCache -----------------------------
EXTENDS LRUCache

CONSTANTS f1, f2, f3, k1, k2

MCIds == {f1, f2, f3}
MCKeyStrs == {k1, k2}
\* A segment's table always holds at least its lower-bound key.
MCTables == {{k1}, {k1, k2}}

=============================================================================
